---- MODULE Spec2Model ----
(***************************************************************************)
(* Model of the real-time connection and fan-out subsystem of              *)
(* Servihub-Chat: WebSocketManager (connection registry, subscription      *)
(* index, event router, liveness sweep), PubSubService (the Redis          *)
(* broadcast backbone) and the Gateway calls they make.                    *)
(*                                                                         *)
(* Every async handler is cut at its awaits on external I/O (Gateway,      *)
(* backbone); the code between two such awaits is one atomic step, as on   *)
(* the single-threaded event loop.  A backbone command takes effect when   *)
(* it is issued; the handler resumes in a later step.                      *)
(***************************************************************************)
EXTENDS Integers, Sequences, FiniteSets, Bags, TLC

\* ------------------------------------------------------------------ bounds
MaxSockets == 3     \* sockets ever opened
MaxFrames  == 2     \* inbound client frames ever received
MaxSweeps  == 3     \* liveness sweeps ever run
MaxNow    == 1     \* the clock value up to which time passes on its own

\* --------------------------------------------------------------- universe
Procs   == {"p1", "p2"}
Users   == {"A", "B"}
Convs   == {"X", "Y"}
NoConv  == "-"
NoUser  == "-"
Sockets == 1..MaxSockets

\* The Gateway's conversation table: X is between A and B, Y between B and a
\* user E who never connects.  Participant rows: customerId / businessId.
Participants(conv) == IF conv = "X" THEN {"A", "B"}
                      ELSE IF conv = "Y" THEN {"B", "E"} ELSE {}

\* (mutant) the participant check lets every user through.
IsUserParticipantAnyone(conv, userId) == TRUE

\* ConversationService.isUserParticipant
IsUserParticipant(conv, userId) == userId \in Participants(conv)

\* ConversationService.findByUserId: the user's conversations, in the fixed
\* order of the query (createdAt desc).
ConvOrder == <<"X", "Y">>
FindByUserId(userId) == SelectSeq(ConvOrder, LAMBDA c : userId \in Participants(c))

VARIABLES
    now,            \* Date.now()
    backboneUp,     \* the Redis server is reachable
    redis,          \* per process: initializeRedis "connecting" | "up" | "failed"
    connections,    \* per process: the Map connectionId -> connection, in insertion order
    conversationSubscriptions, \* per process: conversationId -> set of userIds
    listeners,      \* per process, per conversation channel: number of registered listeners
    inbox,          \* per process: events published to it and not yet delivered
    sockets,        \* per socket: readyState, owning process, connectionId, handlers attached
    connObj,        \* per socket: its WebSocketConnection object
    out,            \* per socket: the frames the last step sent on it, in order
    first,          \* per socket: the type of the first frame ever sent on it ("" if none)
    closeEvt,       \* sockets terminated whose 'close' event is still to be emitted
    messages,       \* the Gateway's persisted messages
    acks,           \* ghost, per persisted message: the sender's socket, message_sent put on it
    admit,          \* per socket: position of its handleConnection call
    handlers,       \* suspended handleMessage calls
    discs,          \* suspended handleDisconnection calls (a bag)
    nframes,        \* inbound frames received so far
    nsweeps         \* liveness sweeps run so far

vars == <<now, backboneUp, redis, connections, conversationSubscriptions, listeners,
          inbox, sockets, connObj, out, first, closeEvt, messages, acks, admit, handlers, discs,
          nframes, nsweeps>>

\* ------------------------------------------------------------ the Map type
MapHas(m, cid) == \E i \in 1..Len(m) : m[i].cid = cid
MapGet(m, cid) == (CHOOSE i \in 1..Len(m) : m[i].cid = cid)
MapSock(m, cid) == m[MapGet(m, cid)].sock
\* Map.set: an existing key keeps its position and gets the new value.
MapSet(m, cid, s) ==
    IF MapHas(m, cid) THEN [m EXCEPT ![MapGet(m, cid)] = [cid |-> cid, sock |-> s]]
    ELSE Append(m, [cid |-> cid, sock |-> s])
MapDelete(m, cid) == SelectSeq(m, LAMBDA e : e.cid # cid)
MapSocks(m) == {m[i].sock : i \in 1..Len(m)}

\* --------------------------------------------------------------- frames
Frame(type, conv, user, msg, val) ==
    [type |-> type, conv |-> conv, user |-> user, msg |-> msg, val |-> val]
Welcome(u)       == Frame("welcome", NoConv, u, 0, "-")
ErrorFrame(why)  == Frame("error", NoConv, NoUser, 0, why)
Pong             == Frame("pong", NoConv, NoUser, 0, "-")
MessageSent(m, conv, u) == Frame("message_sent", conv, u, m, "-")

\* Broadcast events on the backbone.
Event(kind, conv, user, msg, val) ==
    [kind |-> kind, conv |-> conv, user |-> user, msg |-> msg, val |-> val]

\* The frame a delivered event is turned into.
FrameOfEvent(ev) ==
    IF ev.kind = "msg" THEN Frame("message_received", ev.conv, ev.user, ev.msg, "-")
    ELSE IF ev.kind = "typing" THEN Frame("typing_indicator", ev.conv, ev.user, 0, ev.val)
    ELSE Frame("presence_update", NoConv, ev.user, 0, ev.val)

\* ------------------------------------------------------------- the world
\* The mutable state the manager's methods read and write, as one record, so
\* that the methods compose as functions from world to world.
World == [connections |-> connections, subs |-> conversationSubscriptions,
          listeners |-> listeners, inbox |-> inbox, sockets |-> sockets,
          connObj |-> connObj, out |-> [s \in Sockets |-> <<>>], first |-> first,
          closeEvt |-> closeEvt,
          messages |-> messages, acks |-> acks, admit |-> admit, handlers |-> handlers,
          discs |-> discs]

Apply(w) ==
    /\ connections' = w.connections
    /\ conversationSubscriptions' = w.subs
    /\ listeners' = w.listeners
    /\ inbox' = w.inbox
    /\ sockets' = w.sockets
    /\ connObj' = w.connObj
    /\ out' = w.out
    /\ first' = w.first
    /\ closeEvt' = w.closeEvt
    /\ messages' = w.messages
    /\ acks' = w.acks
    /\ admit' = w.admit
    /\ handlers' = w.handlers
    /\ discs' = w.discs

IsRedisConnected(p) == redis[p] = "up"

\* socket.send on each socket of S.
Emit(w, S, frame) ==
    [w EXCEPT !.out = [s \in Sockets |-> IF s \in S THEN Append(@[s], frame) ELSE @[s]],
              !.first = [s \in Sockets |-> IF s \in S /\ @[s] = "" THEN frame.type ELSE @[s]]]

\* (mutant) the frame is sent whatever the socket's state.
SendToClientUnchecked(w, s, frame) == Emit(w, {s}, frame)

\* sendToClient: only on an OPEN socket.
SendToClient(w, s, frame) ==
    IF w.sockets[s].state = "OPEN" THEN Emit(w, {s}, frame) ELSE w

\* ------------------------------------------------- broadcastToConversation
\* (mutant) the loop test without the exclusion of excludeUserId.
ShouldDeliverNoExclude(w, s, conversationId, excludeUserId) ==
    /\ conversationId \in w.connObj[s].conversationIds
    /\ w.sockets[s].state = "OPEN"

\* The test of the loop body: subscribed, not the excluded user, socket OPEN.
ShouldDeliver(w, s, conversationId, excludeUserId) ==
    /\ conversationId \in w.connObj[s].conversationIds
    /\ w.connObj[s].user # excludeUserId
    /\ w.sockets[s].state = "OPEN"

\* broadcastToConversation: nothing at all when the index has no entry for the
\* conversation; otherwise one frame to every registered connection that
\* passes the test.
BroadcastToConversation(w, p, conversationId, frame, excludeUserId) ==
    IF conversationId \notin DOMAIN w.subs[p] THEN w
    ELSE Emit(w, {s \in MapSocks(w.connections[p]) :
                    ShouldDeliver(w, s, conversationId, excludeUserId)}, frame)

\* (mutant) the connections of the user the event is about are left out.
BroadcastPresenceUpdateToOthers(w, p, ev) ==
    Emit(w, {s \in MapSocks(w.connections[p]) :
               w.sockets[s].state = "OPEN" /\ w.connObj[s].user # ev.user},
         FrameOfEvent(ev))

\* broadcastPresenceUpdate: every registered connection with an OPEN socket.
BroadcastPresenceUpdate(w, p, ev) ==
    Emit(w, {s \in MapSocks(w.connections[p]) : w.sockets[s].state = "OPEN"},
         FrameOfEvent(ev))

\* ------------------------------------------------------------ PubSubService
\* The processes whose subscriber has a listener on the event's channel.
Subscribed(w, q, ev) ==
    IF ev.kind = "msg" THEN w.listeners[q][ev.conv] > 0 ELSE redis[q] = "up"

\* publisher.publish: the event reaches every subscribed process's
\* subscriber connection; on an unreachable backbone the call fails and
\* nothing is published.
Publish(w, ev) ==
    IF backboneUp
    THEN [w EXCEPT !.inbox = [q \in Procs |->
            IF Subscribed(w, q, ev) THEN Append(w.inbox[q], ev) ELSE w.inbox[q]]]
    ELSE w

\* ------------------------------------------------------- updateUserPresence
\* Published when the flag is set (the caller then awaits), broadcast locally
\* otherwise.  A failed publish is caught and logged.
UpdateUserPresence(w, p, userId, status) ==
    LET ev == Event("presence", NoConv, userId, 0, status)
    IN IF IsRedisConnected(p) THEN Publish(w, ev)
       ELSE BroadcastPresenceUpdate(w, p, ev)

\* ------------------------------------------------------- handleDisconnection
\* The part after the presence update: the connection's user leaves the
\* member set of each of the connection's conversations, an entry left empty
\* is deleted, and the Map entry of connectionId is deleted.
RECURSIVE Unsubscribe(_, _, _)
Unsubscribe(subs, convs, userId) ==
    IF convs = {} THEN subs
    ELSE LET c == CHOOSE x \in convs : TRUE
             rest == Unsubscribe(subs, convs \ {c}, userId)
         IN IF c \notin DOMAIN rest THEN rest
            ELSE IF rest[c] \ {userId} = {}
                 THEN [x \in DOMAIN rest \ {c} |-> rest[x]]
                 ELSE [rest EXCEPT ![c] = @ \ {userId}]

\* (mutant) the Map entry is deleted and the member sets are left alone.
RemoveConnectionKeepIndex(w, p, cid, s) ==
    [w EXCEPT !.connections[p] = MapDelete(@, cid)]

\* (mutant) an entry whose member set has become empty is kept.
RemoveConnectionKeepEmptyEntries(w, p, cid, s) ==
    [w EXCEPT !.subs[p] = [c \in DOMAIN @ |->
                              IF c \in w.connObj[s].conversationIds
                              THEN @[c] \ {w.connObj[s].user} ELSE @[c]],
              !.connections[p] = MapDelete(@, cid)]

RemoveConnection(w, p, cid, s) ==
    [w EXCEPT !.subs[p] = Unsubscribe(@, w.connObj[s].conversationIds, w.connObj[s].user),
              !.connections[p] = MapDelete(@, cid)]

\* handleDisconnection up to the await of the presence update: returns at
\* once when the Map has no such id; when the presence update was a publish
\* the call is suspended on it (a task in discs).
DisconnectPresence(w, p, cid) ==
    IF ~MapHas(w.connections[p], cid) THEN w
    ELSE LET s  == MapSock(w.connections[p], cid)
             w1 == UpdateUserPresence(w, p, w.connObj[s].user, "offline")
         IN IF IsRedisConnected(p)
            THEN [w1 EXCEPT !.discs = @ (+) SetToBag({[proc |-> p, cid |-> cid, sock |-> s]})]
            ELSE w1

\* handleDisconnection as one event-loop turn: without the backbone nothing
\* external is awaited and the removal follows at once.
HandleDisconnection(w, p, cid) ==
    IF ~MapHas(w.connections[p], cid) THEN w
    ELSE LET s == MapSock(w.connections[p], cid)
             w1 == DisconnectPresence(w, p, cid)
         IN IF IsRedisConnected(p) THEN w1 ELSE RemoveConnection(w1, p, cid, s)

\* ---------------------------------------------------------- handleConnection
NullConn == [user |-> NoUser, conversationIds |-> {}, lastSeen |-> 0, isAlive |-> FALSE]
NullSock == [state |-> "unused", proc |-> "-", cid |-> <<NoUser, 0>>,
             attached |-> FALSE, code |-> 0]
AdmitAt(pc, rest, obj) == [pc |-> pc, rest |-> rest, obj |-> obj]

\* connectionId = `${user.userId}_${Date.now()}`
ConnectionId(userId, t) == <<userId, t>>

\* (mutant) the connection record is put in the Map and no welcome is sent.
RegisterSilently(w, s, p, u, t) ==
    LET cid == ConnectionId(u, t)
    IN [w EXCEPT
          !.connObj[s] = [user |-> u, conversationIds |-> {},
                          lastSeen |-> t, isAlive |-> TRUE],
          !.connections[p] = MapSet(@, cid, s),
          !.sockets[s] = [state |-> "OPEN", proc |-> p, cid |-> cid,
                          attached |-> FALSE, code |-> 0]]

\* Lines 150-174: the connection record is put in the Map under its id and
\* the welcome frame is sent.
Register(w, s, p, u, t) ==
    LET cid == ConnectionId(u, t)
        w1 == [w EXCEPT
                 !.connObj[s] = [user |-> u, conversationIds |-> {},
                                 lastSeen |-> t, isAlive |-> TRUE],
                 !.connections[p] = MapSet(@, cid, s),
                 !.sockets[s] = [state |-> "OPEN", proc |-> p, cid |-> cid,
                                 attached |-> FALSE, code |-> 0]]
    IN SendToClient(w1, s, Welcome(u))

\* (mutant) a user who is already in the member set is taken out of it.
SubscribeLocalToggle(w, p, obj, userId, c) ==
    [w EXCEPT !.connObj[obj].conversationIds = @ \cup {c},
              !.subs[p] = IF c \in DOMAIN @
                          THEN [@ EXCEPT ![c] = IF userId \in @ THEN @ \ {userId}
                                                ELSE @ \cup {userId}]
                          ELSE [x \in DOMAIN @ \cup {c} |->
                                   IF x = c THEN {userId} ELSE @[x]]]

\* One iteration of the loop of subscribeToUserConversations, up to the
\* backbone subscribe: the conversation joins the connection's set and the
\* user joins the conversation's member set (created when absent).
SubscribeLocal(w, p, obj, userId, c) ==
    [w EXCEPT !.connObj[obj].conversationIds = @ \cup {c},
              !.subs[p] = IF c \in DOMAIN @
                          THEN [@ EXCEPT ![c] = @ \cup {userId}]
                          ELSE [x \in DOMAIN @ \cup {c} |->
                                   IF x = c THEN {userId} ELSE @[x]]]

RECURSIVE SubscribeAll(_, _, _, _, _)
SubscribeAll(w, p, obj, userId, rest) ==
    IF rest = <<>> THEN w
    ELSE SubscribeAll(SubscribeLocal(w, p, obj, userId, Head(rest)), p, obj, userId, Tail(rest))

\* pubSubService.subscribeToConversation: one more listener on the channel.
SubscribeToConversation(w, p, c) == [w EXCEPT !.listeners[p][c] = @ + 1]

\* Lines 179-194: the presence update, then the socket's handlers.  With the
\* flag set the call is suspended on the publish before attaching them.
AttachHandlers(w, s) ==
    [w EXCEPT !.sockets[s].attached = TRUE, !.admit[s] = AdmitAt("done", <<>>, 0)]

PresenceAndHandlers(w, s, p, u) ==
    LET w1 == UpdateUserPresence(w, p, u, "online")
    IN IF IsRedisConnected(p)
       THEN [w1 EXCEPT !.admit[s] = AdmitAt("presence", <<>>, 0)]
       ELSE AttachHandlers(w1, s)

\* (mutant) without the flag the loop over the conversations is skipped.
SubscribeFromConnectedOnly(w, s, p, u, obj, rest) ==
    IF rest = <<>> THEN PresenceAndHandlers(w, s, p, u)
    ELSE IF IsRedisConnected(p)
    THEN LET w1 == SubscribeLocal(w, p, obj, u, Head(rest))
         IN IF backboneUp
            THEN [SubscribeToConversation(w1, p, Head(rest))
                    EXCEPT !.admit[s] = AdmitAt("sub", Tail(rest), obj)]
            ELSE PresenceAndHandlers(w1, s, p, u)
    ELSE PresenceAndHandlers(w, s, p, u)

\* subscribeToUserConversations from a resumption point to the next await.
SubscribeFrom(w, s, p, u, obj, rest) ==
    IF rest = <<>> THEN PresenceAndHandlers(w, s, p, u)
    ELSE IF IsRedisConnected(p)
    THEN LET w1 == SubscribeLocal(w, p, obj, u, Head(rest))
         IN IF backboneUp
            THEN [SubscribeToConversation(w1, p, Head(rest))
                    EXCEPT !.admit[s] = AdmitAt("sub", Tail(rest), obj)]
            ELSE PresenceAndHandlers(w1, s, p, u)   \* the subscribe throws: caught, loop left
    ELSE PresenceAndHandlers(SubscribeAll(w, p, obj, u, rest), s, p, u)

\* -------------------------------------------------------------- handleMessage
\* Inbound frames, as parsed: a type, and whether conversationId / body are
\* present.  "invalid" is a frame that is not JSON, "bogus" an unknown type.
ChatFrame(conv, body) == [type |-> "chat_message", conv |-> conv, body |-> body]
TypingFrame(type, conv) == [type |-> type, conv |-> conv, body |-> FALSE]
PlainFrame(type) == [type |-> type, conv |-> NoConv, body |-> FALSE]
Frames ==
    {ChatFrame(c, TRUE) : c \in Convs} \cup {ChatFrame("X", FALSE), ChatFrame(NoConv, TRUE)}
    \cup {TypingFrame(ty, c) : ty \in {"typing_start", "typing_stop"}, c \in {"X", NoConv}}
    \cup {TypingFrame("typing_start", "Y")}
    \cup {PlainFrame("ping"), PlainFrame("bogus"), PlainFrame("invalid")}

Task(fid, obj, p, kind, conv, val, pc) ==
    [fid |-> fid, sock |-> obj, proc |-> p, kind |-> kind, conv |-> conv,
     val |-> val, pc |-> pc]

\* connection.lastSeen = new Date(), line 235
Touch(w, obj) == [w EXCEPT !.connObj[obj].lastSeen = now]

\* (mutant) only the conversationId is checked.
MissingFieldsBodyUnchecked(f) == f.conv = NoConv

\* handleChatMessage, lines 249-256: the field check.
MissingFields(f) == f.conv = NoConv \/ ~f.body

\* (mutant) a typing frame subscribes the sender to its conversation.
HandleTypingIndicatorJoining(w, fid, obj, p, f) ==
    LET u  == w.connObj[obj].user
        isTyping == IF f.type = "typing_start" THEN "true" ELSE "false"
        ev == Event("typing", f.conv, u, 0, isTyping)
        w0 == IF f.conv = NoConv THEN w ELSE SubscribeLocal(w, p, obj, u, f.conv)
    IN IF f.conv = NoConv THEN Touch(w, obj)
       ELSE IF IsRedisConnected(p)
       THEN [Publish(w0, ev) EXCEPT
               !.handlers = @ \cup {Task(fid, obj, p, "typing", f.conv, isTyping, "publish")}]
       ELSE Touch(BroadcastToConversation(w0, p, f.conv, FrameOfEvent(ev), u), obj)

\* handleTypingIndicator up to its await.
HandleTypingIndicator(w, fid, obj, p, f) ==
    LET u  == w.connObj[obj].user
        isTyping == IF f.type = "typing_start" THEN "true" ELSE "false"
        ev == Event("typing", f.conv, u, 0, isTyping)
    IN IF f.conv = NoConv THEN Touch(w, obj)
       ELSE IF IsRedisConnected(p)
       THEN [Publish(w, ev) EXCEPT
               !.handlers = @ \cup {Task(fid, obj, p, "typing", f.conv, isTyping, "publish")}]
       ELSE Touch(BroadcastToConversation(w, p, f.conv, FrameOfEvent(ev), u), obj)

\* (mutant) the switch has no case for ping, which falls to the default.
HandleMessageWithoutPing(w, fid, obj, p, f) ==
    IF f.type = "invalid"
    THEN SendToClient(w, obj, ErrorFrame("Invalid message format"))
    ELSE IF f.type = "chat_message"
    THEN IF MissingFields(f)
         THEN Touch(SendToClient(w, obj, ErrorFrame("Missing conversationId or body")), obj)
         ELSE [w EXCEPT !.handlers = @ \cup {Task(fid, obj, p, "chat", f.conv, "-", "participant")}]
    ELSE IF f.type \in {"typing_start", "typing_stop"}
    THEN HandleTypingIndicator(w, fid, obj, p, f)
    ELSE Touch(SendToClient(w, obj, ErrorFrame("Unknown message type")), obj)

\* (mutant) the switch has no default: an unknown type is ignored.
HandleMessageWithoutDefault(w, fid, obj, p, f) ==
    IF f.type = "invalid"
    THEN SendToClient(w, obj, ErrorFrame("Invalid message format"))
    ELSE IF f.type = "chat_message"
    THEN IF MissingFields(f)
         THEN Touch(SendToClient(w, obj, ErrorFrame("Missing conversationId or body")), obj)
         ELSE [w EXCEPT !.handlers = @ \cup {Task(fid, obj, p, "chat", f.conv, "-", "participant")}]
    ELSE IF f.type \in {"typing_start", "typing_stop"}
    THEN HandleTypingIndicator(w, fid, obj, p, f)
    ELSE IF f.type = "ping"
    THEN Touch(SendToClient(w, obj, Pong), obj)
    ELSE Touch(w, obj)

\* handleMessage up to its first await, for the connection object the Map
\* holds under the handler's connectionId.
HandleMessage(w, fid, obj, p, f) ==
    IF f.type = "invalid"
    THEN SendToClient(w, obj, ErrorFrame("Invalid message format"))
    ELSE IF f.type = "chat_message"
    THEN IF MissingFields(f)
         THEN Touch(SendToClient(w, obj, ErrorFrame("Missing conversationId or body")), obj)
         ELSE [w EXCEPT !.handlers = @ \cup {Task(fid, obj, p, "chat", f.conv, "-", "participant")}]
    ELSE IF f.type \in {"typing_start", "typing_stop"}
    THEN HandleTypingIndicator(w, fid, obj, p, f)
    ELSE IF f.type = "ping"
    THEN Touch(SendToClient(w, obj, Pong), obj)
    ELSE Touch(SendToClient(w, obj, ErrorFrame("Unknown message type")), obj)

Drop(w, t) == [w EXCEPT !.handlers = @ \ {t}]

\* handleChatMessage after isUserParticipant has returned.
AfterParticipantCheck(w, t) ==
    IF ~IsUserParticipant(t.conv, w.connObj[t.sock].user)
    THEN Touch(SendToClient(Drop(w, t), t.sock,
                 ErrorFrame("You are not a participant in this conversation")), t.sock)
    ELSE [w EXCEPT !.handlers = (@ \ {t}) \cup {[t EXCEPT !.pc = "create"]}]

\* (mutant) a publish that fails is not caught in publishToConversation and
\* reaches the catch of handleChatMessage.
AfterCreateMessagePublishThrows(w, t, ok) ==
    LET u  == w.connObj[t.sock].user
        id == Len(w.messages) + 1
    IN IF ~ok
       THEN Touch(SendToClient(Drop(w, t), t.sock, ErrorFrame("Failed to send message")), t.sock)
       ELSE LET w1 == [w EXCEPT !.messages = Append(@, [conv |-> t.conv, sender |-> u,
                                                        fid |-> t.fid]),
                                !.acks = Append(@, [sock |-> t.sock,
                                                    sent |-> w.sockets[t.sock].state = "OPEN"])]
                w2 == SendToClient(w1, t.sock, MessageSent(id, t.conv, u))
            IN IF IsRedisConnected(t.proc)
               THEN IF backboneUp
                    THEN [Publish(w2, Event("msg", t.conv, u, id, "-")) EXCEPT
                            !.handlers = (@ \ {t}) \cup {[t EXCEPT !.pc = "publish"]}]
                    ELSE SendToClient(Drop(w2, t), t.sock, ErrorFrame("Failed to send message"))
               ELSE Touch(Drop(w2, t), t.sock)

\* (mutant) a createMessage that throws ends the handler without a frame.
AfterCreateMessageSilentFailure(w, t, ok) ==
    LET u  == w.connObj[t.sock].user
        id == Len(w.messages) + 1
    IN IF ~ok
       THEN Touch(Drop(w, t), t.sock)
       ELSE LET w1 == [w EXCEPT !.messages = Append(@, [conv |-> t.conv, sender |-> u,
                                                        fid |-> t.fid]),
                                !.acks = Append(@, [sock |-> t.sock,
                                                    sent |-> w.sockets[t.sock].state = "OPEN"])]
                w2 == SendToClient(w1, t.sock, MessageSent(id, t.conv, u))
            IN IF IsRedisConnected(t.proc)
               THEN [Publish(w2, Event("msg", t.conv, u, id, "-")) EXCEPT
                       !.handlers = (@ \ {t}) \cup {[t EXCEPT !.pc = "publish"]}]
               ELSE Touch(Drop(w2, t), t.sock)

\* (mutant) message_sent is sent although createMessage has thrown.
AfterCreateMessageAckAnyway(w, t, ok) ==
    LET u  == w.connObj[t.sock].user
        id == Len(w.messages) + 1
    IN IF ~ok
       THEN Touch(SendToClient(Drop(w, t), t.sock, MessageSent(id, t.conv, u)), t.sock)
       ELSE LET w1 == [w EXCEPT !.messages = Append(@, [conv |-> t.conv, sender |-> u,
                                                        fid |-> t.fid]),
                                !.acks = Append(@, [sock |-> t.sock,
                                                    sent |-> w.sockets[t.sock].state = "OPEN"])]
                w2 == SendToClient(w1, t.sock, MessageSent(id, t.conv, u))
            IN IF IsRedisConnected(t.proc)
               THEN [Publish(w2, Event("msg", t.conv, u, id, "-")) EXCEPT
                       !.handlers = (@ \ {t}) \cup {[t EXCEPT !.pc = "publish"]}]
               ELSE Touch(Drop(w2, t), t.sock)

\* handleChatMessage after createMessage has returned (ok) or thrown.
AfterCreateMessage(w, t, ok) ==
    LET u == w.connObj[t.sock].user
    IN IF ~ok
       THEN Touch(SendToClient(Drop(w, t), t.sock, ErrorFrame("Failed to send message")), t.sock)
       ELSE LET id == Len(w.messages) + 1
                w1 == [w EXCEPT !.messages = Append(@, [conv |-> t.conv, sender |-> u,
                                                        fid |-> t.fid]),
                                !.acks = Append(@, [sock |-> t.sock,
                                                    sent |-> w.sockets[t.sock].state = "OPEN"])]
                w2 == SendToClient(w1, t.sock, MessageSent(id, t.conv, u))
            IN IF IsRedisConnected(t.proc)
               THEN [Publish(w2, Event("msg", t.conv, u, id, "-")) EXCEPT
                       !.handlers = (@ \ {t}) \cup {[t EXCEPT !.pc = "publish"]}]
               ELSE Touch(Drop(w2, t), t.sock)

\* ------------------------------------------------------------ pingConnections
\* (mutant) the sweep leaves the socket of a dead connection alone.
TerminateNothing(w, s) == w

Terminate(w, s) ==
    IF w.sockets[s].state = "OPEN"
    THEN [w EXCEPT !.sockets[s].state = "CLOSING", !.closeEvt = @ \cup {s}]
    ELSE w

\* The loop body for one Map entry.
PingOne(w, p, e) ==
    IF ~w.connObj[e.sock].isAlive
    THEN DisconnectPresence(Terminate(w, e.sock), p, e.cid)
    ELSE [w EXCEPT !.connObj[e.sock].isAlive = FALSE]

RECURSIVE PingLoop(_, _, _)
PingLoop(w, p, entries) ==
    IF entries = <<>> THEN w
    ELSE PingLoop(PingOne(w, p, Head(entries)), p, Tail(entries))

\* Without the backbone the handleDisconnection calls of the loop awaited
\* nothing external: their removals run as soon as the loop has ended.
RECURSIVE RemoveAll(_, _, _)
RemoveAll(w, p, entries) ==
    IF entries = <<>> THEN w
    ELSE RemoveAll(RemoveConnection(w, p, Head(entries).cid, Head(entries).sock),
                   p, Tail(entries))

PingConnectionsOp(w, p) ==
    LET entries == w.connections[p]
        dead == SelectSeq(entries, LAMBDA e : ~w.connObj[e.sock].isAlive)
        w1 == PingLoop(w, p, entries)
    IN IF IsRedisConnected(p) THEN w1 ELSE RemoveAll(w1, p, dead)

\* ------------------------------------------------------- backbone delivery
RECURSIVE Times(_, _, _, _, _)
Times(n, w, p, ev, frame) ==
    IF n = 0 THEN w
    ELSE Times(n - 1, BroadcastToConversation(w, p, ev.conv, frame, ev.user), p, ev, frame)

\* The subscriber of process p receives ev: every listener on its channel runs.
Dispatch(w, p, ev) ==
    IF ev.kind = "msg" THEN Times(w.listeners[p][ev.conv], w, p, ev, FrameOfEvent(ev))
    ELSE IF ev.kind = "typing" THEN BroadcastToConversation(w, p, ev.conv, FrameOfEvent(ev), ev.user)
    ELSE BroadcastPresenceUpdate(w, p, ev)

\* ===================================================================== state
\* The state after construction, with the backbone reachable or not and each
\* process's initializeRedis at position r.
InitWith(up, r) ==
    /\ now = 0
    /\ backboneUp = up
    /\ redis = [p \in Procs |-> r]
    /\ connections = [p \in Procs |-> <<>>]
    /\ conversationSubscriptions = [p \in Procs |-> <<>>]
    /\ listeners = [p \in Procs |-> [c \in Convs |-> 0]]
    /\ inbox = [p \in Procs |-> <<>>]
    /\ sockets = [s \in Sockets |-> NullSock]
    /\ connObj = [s \in Sockets |-> NullConn]
    /\ out = [s \in Sockets |-> <<>>]
    /\ first = [s \in Sockets |-> ""]
    /\ closeEvt = {}
    /\ messages = <<>>
    /\ acks = <<>>
    /\ admit = [s \in Sockets |-> AdmitAt("none", <<>>, 0)]
    /\ handlers = {}
    /\ discs = EmptyBag
    /\ nframes = 0
    /\ nsweeps = 0

Env == <<now, backboneUp, redis, nframes, nsweeps>>

\* The next socket to be opened.
Fresh(s) == sockets[s].state = "unused" /\ \A r \in Sockets : r < s => sockets[r].state # "unused"

\* -------------------------------------------------------------- environment
\* Activities in flight: suspended handler calls, 'close' events to come and
\* undelivered backbone events.  Each specification lets the environment
\* (clients, timers, the Redis server) produce its next stimulus only while
\* fewer than a bound of them are.
Load ==
    Cardinality({s \in Sockets : admit[s].pc \in {"find", "sub", "presence"}})
    + Cardinality(handlers) + BagCardinality(discs) + Cardinality(closeEvt)
    + Len(inbox["p1"]) + Len(inbox["p2"])

\* The Redis server becomes unreachable.
BackboneFail ==
    /\ backboneUp
    /\ backboneUp' = FALSE
    /\ UNCHANGED <<now, redis, nframes, nsweeps>> /\ Apply(World)

\* initializeRedis resumes from connectRedis: connected, and subscribed to the
\* typing and presence channels, or failed.
InitializeRedis(p) ==
    /\ redis[p] = "connecting"
    /\ redis' = [redis EXCEPT ![p] = IF backboneUp THEN "up" ELSE "failed"]
    /\ UNCHANGED <<now, backboneUp, nframes, nsweeps>> /\ Apply(World)

\* ------------------------------------------------------------------ GET /ws
\* A handshake without a valid token: closed with 1008, nothing else.
RejectOp(w, s, p) ==
    [w EXCEPT !.sockets[s] = [NullSock EXCEPT !.state = "CLOSED", !.proc = p, !.code = 1008]]

WsReject(s, p) ==
    /\ Fresh(s)
    /\ Apply(RejectOp(World, s, p))
    /\ UNCHANGED Env

\* A handshake with a valid token of user u: handleConnection up to the await
\* of findByUserId.  dt is the time since the previous admission on the clock
\* of Date.now(): 0 when both fall in the same millisecond.
HandleConnection(s, p, u, dt) ==
    /\ Fresh(s)
    /\ now' = now + dt
    /\ Apply([Register(World, s, p, u, now + dt) EXCEPT !.admit[s] = AdmitAt("find", <<>>, 0)])
    /\ UNCHANGED <<backboneUp, redis, nframes, nsweeps>>

\* findByUserId has returned: the Map is read for the connection and the loop
\* starts.
SubscribeStart(s) ==
    /\ admit[s].pc = "find"
    /\ LET p == sockets[s].proc
           u == connObj[s].user
           cid == sockets[s].cid
       IN Apply(IF MapHas(connections[p], cid)
                THEN SubscribeFrom(World, s, p, u, MapSock(connections[p], cid), FindByUserId(u))
                ELSE PresenceAndHandlers(World, s, p, u))
    /\ UNCHANGED Env

\* A backbone subscribe of the loop has returned.
SubscribeNext(s) ==
    /\ admit[s].pc = "sub"
    /\ Apply(SubscribeFrom(World, s, sockets[s].proc, connObj[s].user,
                           admit[s].obj, admit[s].rest))
    /\ UNCHANGED Env

\* The presence publish has returned: the handlers are attached.
AdmitFinish(s) ==
    /\ admit[s].pc = "presence"
    /\ Apply(AttachHandlers(World, s))
    /\ UNCHANGED Env

\* ------------------------------------------------------------ socket events
\* The client sends a frame.  Before the 'message' handler is attached nothing
\* listens; handleMessage returns at once when the Map has no such id.
ReceiveFrame(s, f) ==
    /\ sockets[s].state = "OPEN"
    /\ nframes < MaxFrames
    /\ nframes' = nframes + 1
    /\ LET p == sockets[s].proc
           cid == sockets[s].cid
       IN Apply(IF sockets[s].attached /\ MapHas(connections[p], cid)
                THEN HandleMessage(World, nframes + 1, MapSock(connections[p], cid), p, f)
                ELSE World)
    /\ UNCHANGED <<now, backboneUp, redis, nsweeps>>

ParticipantReturn(t) ==
    /\ t \in handlers /\ t.pc = "participant"
    /\ Apply(AfterParticipantCheck(World, t))
    /\ UNCHANGED Env

CreateMessageReturn(t, ok) ==
    /\ t \in handlers /\ t.pc = "create"
    /\ Apply(AfterCreateMessage(World, t, ok))
    /\ UNCHANGED Env

\* The publish of a chat message or a typing event has returned.
PublishReturn(t) ==
    /\ t \in handlers /\ t.pc = "publish"
    /\ Apply(Touch(Drop(World, t), t.sock))
    /\ UNCHANGED Env

\* The client closes the socket: 'close' is emitted.
ClientClose(s) ==
    /\ sockets[s].state = "OPEN"
    /\ LET w1 == [World EXCEPT !.sockets[s].state = "CLOSED"]
       IN Apply(IF sockets[s].attached
                THEN HandleDisconnection(w1, sockets[s].proc, sockets[s].cid)
                ELSE w1)
    /\ UNCHANGED Env

\* 'close' is emitted for a terminated socket.
CloseEvent(s) ==
    /\ s \in closeEvt
    /\ LET w1 == [World EXCEPT !.sockets[s].state = "CLOSED", !.closeEvt = @ \ {s}]
       IN Apply(IF sockets[s].attached
                THEN HandleDisconnection(w1, sockets[s].proc, sockets[s].cid)
                ELSE w1)
    /\ UNCHANGED Env

\* The socket emits 'error': handleError only logs; the socket is then closed
\* and emits 'close'.
ErrorEvent(s) ==
    /\ sockets[s].state = "OPEN"
    /\ Apply([World EXCEPT !.sockets[s].state = "CLOSING", !.closeEvt = @ \cup {s}])
    /\ UNCHANGED Env

\* handleDisconnection resumes from the presence publish.
DisconnectReturn(t) ==
    /\ BagIn(t, discs)
    /\ Apply(RemoveConnection([World EXCEPT !.discs = @ (-) SetToBag({t})],
                              t.proc, t.cid, t.sock))
    /\ UNCHANGED Env

\* The client answers a heartbeat.
PongOp(w, s) ==
    LET p == w.sockets[s].proc
        cid == w.sockets[s].cid
    IN IF MapHas(w.connections[p], cid)
       THEN LET obj == MapSock(w.connections[p], cid)
            IN [w EXCEPT !.connObj[obj].isAlive = TRUE, !.connObj[obj].lastSeen = now]
       ELSE w

PongEvent(s) ==
    /\ sockets[s].state = "OPEN" /\ sockets[s].attached
    /\ Apply(PongOp(World, s))
    /\ UNCHANGED Env

\* The 30 s timer fires on process p.
PingConnections(p) ==
    /\ nsweeps < MaxSweeps
    /\ nsweeps' = nsweeps + 1
    /\ now' = now + 1
    /\ connections[p] # <<>>
    /\ Apply(PingConnectionsOp(World, p))
    /\ UNCHANGED <<backboneUp, redis, nframes>>

\* The backbone delivers the next event to process p.
Deliver(p) ==
    /\ inbox[p] # <<>>
    /\ Apply(Dispatch([World EXCEPT !.inbox[p] = Tail(@)], p, Head(inbox[p])))
    /\ UNCHANGED Env

\* Time passes: Date.now() returns a later millisecond.
Tick ==
    /\ now < MaxNow
    /\ now' = now + 1
    /\ UNCHANGED <<backboneUp, redis, nframes, nsweeps>> /\ Apply(World)

\* ------------------------------------------------------------ specifications
\* Steps of the handlers already running and of the backbone.
Internal ==
    \/ \E s \in Sockets : SubscribeStart(s)
    \/ \E s \in Sockets : SubscribeNext(s)
    \/ \E s \in Sockets : AdmitFinish(s)
    \/ \E t \in handlers : ParticipantReturn(t)
    \/ \E t \in handlers, ok \in BOOLEAN : CreateMessageReturn(t, ok)
    \/ \E t \in handlers : PublishReturn(t)
    \/ \E t \in BagToSet(discs) : DisconnectReturn(t)
    \/ \E p \in Procs : Deliver(p)

\* Spec: the steady modes.  Before the first handshake either both processes
\* have connected to the backbone, which then stays up, or the backbone was
\* unreachable and both run local-only.  No two admissions fall in the same
\* millisecond; the environment waits for the system to come to rest before
\* its next stimulus, and sends one frame.
SpecFrames   == 1
SpecInFlight == 1
Init == \E up \in BOOLEAN : InitWith(up, IF up THEN "up" ELSE "failed")
Next ==
    \/ \E s \in Sockets, p \in Procs, u \in Users :
          Load < SpecInFlight /\ HandleConnection(s, p, u, 1)
    \/ \E s \in Sockets, p \in Procs : Load < SpecInFlight /\ WsReject(s, p)
    \/ \E s \in Sockets, f \in Frames :
          Load < SpecInFlight /\ nframes < SpecFrames /\ ReceiveFrame(s, f)
    \/ \E s \in Sockets : Load < SpecInFlight /\ ClientClose(s)
    \/ Internal

Spec == Init /\ [][Next]_vars

\* SpecRace: one process, connected to the backbone; two sockets and two
\* frames, and stimuli arrive while earlier ones are still being handled.
RaceSockets  == 2
RaceInFlight == 2
NextRace ==
    \/ \E s \in Sockets, u \in Users :
          Load < RaceInFlight /\ s <= RaceSockets /\ HandleConnection(s, "p1", u, 1)
    \/ \E s \in Sockets, f \in Frames : Load < RaceInFlight /\ ReceiveFrame(s, f)
    \/ \E s \in Sockets : Load < RaceInFlight /\ ClientClose(s)
    \/ Internal

SpecRace == Init /\ [][NextRace]_vars

\* SpecSweep: one process, in either steady mode, with the 30 s timer running:
\* two sockets, heartbeats answered or not, sweeps that may fall while an
\* admission or an eviction is suspended.  No frames are sent.
SweepSockets  == 2
SweepInFlight == 2
Continuations ==
    \/ \E s \in Sockets : SubscribeStart(s)
    \/ \E s \in Sockets : SubscribeNext(s)
    \/ \E s \in Sockets : AdmitFinish(s)
    \/ \E t \in BagToSet(discs) : DisconnectReturn(t)
    \/ \E p \in Procs : Deliver(p)

NextSweep ==
    \/ \E s \in Sockets, u \in Users :
          Load < SweepInFlight /\ s <= SweepSockets /\ HandleConnection(s, "p1", u, 1)
    \/ Load < SweepInFlight /\ PingConnections("p1")
    \/ \E s \in Sockets : Load < SweepInFlight /\ PongEvent(s)
    \/ \E s \in Sockets : Load < SweepInFlight /\ ClientClose(s)
    \/ \E s \in Sockets : CloseEvent(s)
    \/ Continuations

SpecSweep == Init /\ [][NextSweep]_vars

\* SpecHeartbeat: the same with one socket, and with the event loop running
\* every continuation whose awaited call has returned and emitting 'close'
\* for every terminated socket.
HeartbeatSockets  == 1
HeartbeatInFlight == 2
NextHeartbeat ==
    \/ \E s \in Sockets, u \in Users :
          Load < HeartbeatInFlight /\ s <= HeartbeatSockets /\ HandleConnection(s, "p1", u, 1)
    \/ Load < HeartbeatInFlight /\ PingConnections("p1")
    \/ \E s \in Sockets : Load < HeartbeatInFlight /\ PongEvent(s)
    \/ \E s \in Sockets : Load < HeartbeatInFlight /\ ClientClose(s)
    \/ \E s \in Sockets : CloseEvent(s)
    \/ Continuations

SpecHeartbeat ==
    /\ Init /\ [][NextHeartbeat]_vars
    /\ WF_vars(Continuations)
    /\ WF_vars(\E s \in Sockets : CloseEvent(s))

\* SpecBackbone: startup and loss of the backbone.  Process p1 starts with
\* initializeRedis suspended on connectRedis, the backbone reachable or not;
\* a reachable backbone can be lost at any moment.  Handshakes, one frame
\* and closes arrive while that goes on.
BackboneSockets  == 2
BackboneInFlight == 2
BackboneFrames   == 1
InitBackbone == \E up \in BOOLEAN : InitWith(up, "connecting")
NextBackbone ==
    \/ InitializeRedis("p1")
    \/ BackboneFail
    \/ \E s \in Sockets, u \in Users :
          Load < BackboneInFlight /\ s <= BackboneSockets /\ HandleConnection(s, "p1", u, 1)
    \/ \E s \in Sockets, f \in Frames :
          Load < BackboneInFlight /\ nframes < BackboneFrames /\ ReceiveFrame(s, f)
    \/ \E s \in Sockets : Load < BackboneInFlight /\ ClientClose(s)
    \/ Internal

SpecBackbone == InitBackbone /\ [][NextBackbone]_vars

\* SpecCross: two processes connected to a backbone that stays up; A's
\* handshakes arrive on p1 and B's on p2, one chat_message for X is sent, and
\* the environment waits for the system to come to rest before its next
\* stimulus.  The event loops run every continuation whose awaited call has
\* returned, and the backbone delivers every event.
CrossFrames == 1
InitCross == InitWith(TRUE, "up")
NextCross ==
    \/ \E s \in Sockets : Load = 0 /\ HandleConnection(s, "p1", "A", 1)
    \/ \E s \in Sockets : Load = 0 /\ HandleConnection(s, "p2", "B", 1)
    \/ \E s \in Sockets :
          Load = 0 /\ nframes < CrossFrames /\ ReceiveFrame(s, ChatFrame("X", TRUE))
    \/ \E s \in Sockets : Load = 0 /\ ClientClose(s)
    \/ Internal

SpecCross == InitCross /\ [][NextCross]_vars /\ WF_vars(Internal)

\* SpecTouch: one process, in either steady mode, one socket: the timer
\* sweeps while the client sends frames and answers heartbeats or not.
TouchSockets  == 1
TouchInFlight == 2
TouchFrames   == 2
NextTouch ==
    \/ \E s \in Sockets, u \in Users :
          Load < TouchInFlight /\ s <= TouchSockets /\ HandleConnection(s, "p1", u, 1)
    \/ Load < TouchInFlight /\ PingConnections("p1")
    \/ \E s \in Sockets : Load < TouchInFlight /\ PongEvent(s)
    \/ \E s \in Sockets, f \in Frames :
          Load < TouchInFlight /\ nframes < TouchFrames /\ ReceiveFrame(s, f)
    \/ \E s \in Sockets : CloseEvent(s)
    \/ Internal

SpecTouch == Init /\ [][NextTouch]_vars

\* SpecClock: one process connected to the backbone; handshakes of any user
\* arrive in the same millisecond as the previous one or a later one, while
\* earlier admissions may still be suspended; one frame is sent, sockets
\* close and time passes.
ClockSockets  == 2
ClockInFlight == 2
ClockFrames   == 1
NextClock ==
    \/ \E s \in Sockets, u \in Users, dt \in {0, 1} :
          Load < ClockInFlight /\ s <= ClockSockets /\ HandleConnection(s, "p1", u, dt)
    \/ \E s \in Sockets, f \in Frames :
          Load < ClockInFlight /\ nframes < ClockFrames /\ ReceiveFrame(s, f)
    \/ \E s \in Sockets : Load < ClockInFlight /\ ClientClose(s)
    \/ Load < ClockInFlight /\ Tick
    \/ Internal

SpecClock == Init /\ [][NextClock]_vars

\* SpecDegraded: one process connected to a backbone that may be lost while
\* the system is at rest and then stays lost; the process keeps its flag.
\* The environment waits for the system to come to rest before its next
\* stimulus, so the steps of one handler follow each other directly.
DegradedSockets == 2
DegradedFrames  == 2
InitDegraded == InitWith(TRUE, "up")
NextDegraded ==
    \/ Load = 0 /\ BackboneFail
    \/ \E s \in Sockets, u \in Users :
          Load = 0 /\ s <= DegradedSockets /\ HandleConnection(s, "p1", u, 1)
    \/ \E s \in Sockets, f \in Frames :
          Load = 0 /\ nframes < DegradedFrames /\ ReceiveFrame(s, f)
    \/ \E s \in Sockets : Load = 0 /\ ClientClose(s)
    \/ Internal

SpecDegraded == InitDegraded /\ [][NextDegraded]_vars

\* SpecHalfClosed: one process, in either steady mode, two sockets whose
\* clients never answer a heartbeat: the timer sweeps twice, a chat message,
\* a typing event or a ping arrives and sockets close while admissions,
\* handlers and evictions are suspended.
HalfClosedSockets  == 2
HalfClosedInFlight == 2
HalfClosedFrames   == 1
HalfClosedSweeps   == 2
NextHalfClosed ==
    \/ \E s \in Sockets, u \in Users :
          /\ Load < HalfClosedInFlight /\ s <= HalfClosedSockets
          /\ HandleConnection(s, "p1", u, 1)
    \/ Load < HalfClosedInFlight /\ nsweeps < HalfClosedSweeps /\ PingConnections("p1")
    \/ \E s \in Sockets, f \in {ChatFrame("X", TRUE), TypingFrame("typing_start", "X"),
                                 PlainFrame("ping")} :
          Load < HalfClosedInFlight /\ nframes < HalfClosedFrames /\ ReceiveFrame(s, f)
    \/ \E s \in Sockets : Load < HalfClosedInFlight /\ ClientClose(s)
    \/ \E s \in Sockets : CloseEvent(s)
    \/ Internal

SpecHalfClosed == Init /\ [][NextHalfClosed]_vars

\* SpecEvict: one process, in either steady mode, one socket that the client
\* closes, or that fails with an error, at any moment of its life, admission
\* included.  The timer keeps firing, the event loop runs every continuation
\* whose awaited call has returned and emits 'close' for every socket that
\* was terminated or has failed.
EvictSockets  == 1
EvictInFlight == 2
NextEvict ==
    \/ \E s \in Sockets, u \in Users :
          Load < EvictInFlight /\ s <= EvictSockets /\ HandleConnection(s, "p1", u, 1)
    \/ Load < EvictInFlight /\ PingConnections("p1")
    \/ \E s \in Sockets : Load < EvictInFlight /\ PongEvent(s)
    \/ \E s \in Sockets : ClientClose(s)
    \/ \E s \in Sockets : ErrorEvent(s)
    \/ \E s \in Sockets : CloseEvent(s)
    \/ Continuations

SpecEvict ==
    /\ Init /\ [][NextEvict]_vars
    /\ WF_vars(Continuations)
    /\ WF_vars(\E s \in Sockets : CloseEvent(s))
    /\ WF_vars(Load < EvictInFlight /\ PingConnections("p1"))

\* SpecGateway: one process, in either steady mode, one socket and one frame.
\* The event loop runs every continuation whose awaited call has returned
\* and the backbone answers every call; the Gateway calls of a chat message
\* (isUserParticipant, createMessage) may return or stay pending for ever.
GatewaySockets  == 1
GatewayInFlight == 2
GatewayFrames   == 1
NextGateway ==
    \/ \E s \in Sockets, u \in Users :
          Load < GatewayInFlight /\ s <= GatewaySockets /\ HandleConnection(s, "p1", u, 1)
    \/ \E s \in Sockets, f \in Frames :
          Load < GatewayInFlight /\ nframes < GatewayFrames /\ ReceiveFrame(s, f)
    \/ \E s \in Sockets : Load < GatewayInFlight /\ ClientClose(s)
    \/ Internal

SpecGateway ==
    /\ Init /\ [][NextGateway]_vars
    /\ WF_vars(Continuations)
    /\ WF_vars(\E t \in handlers : PublishReturn(t))

\* SpecStartup: handshakes during startup.  Process p1 starts with
\* initializeRedis suspended on connectRedis; handshakes arrive only until
\* connectRedis has settled, frames only afterwards.
StartupSockets  == 2
StartupInFlight == 2
StartupFrames   == 1
NextStartup ==
    \/ InitializeRedis("p1")
    \/ \E s \in Sockets, u \in Users :
          /\ Load < StartupInFlight /\ s <= StartupSockets /\ redis["p1"] = "connecting"
          /\ HandleConnection(s, "p1", u, 1)
    \/ \E s \in Sockets, f \in Frames :
          /\ Load < StartupInFlight /\ nframes < StartupFrames /\ redis["p1"] # "connecting"
          /\ ReceiveFrame(s, f)
    \/ \E s \in Sockets : Load < StartupInFlight /\ ClientClose(s)
    \/ Internal

SpecStartup == InitBackbone /\ [][NextStartup]_vars

\* SpecReconnect: clients that reconnect.  A user has at most one socket
\* that is not closed: a handshake of a user arrives only when every earlier
\* socket of that user has been closed.  The cleanup of a closed connection
\* can still be suspended when the user's next handshake arrives.
ReconnectSockets  == 2
ReconnectInFlight == 2
ReconnectFrames   == 1
NextReconnect ==
    \/ \E s \in Sockets, u \in Users :
          /\ Load < ReconnectInFlight /\ s <= ReconnectSockets
          /\ \A r \in Sockets : connObj[r].user = u => sockets[r].state = "CLOSED"
          /\ HandleConnection(s, "p1", u, 1)
    \/ \E s \in Sockets, f \in Frames :
          Load < ReconnectInFlight /\ nframes < ReconnectFrames /\ ReceiveFrame(s, f)
    \/ \E s \in Sockets : Load < ReconnectInFlight /\ ClientClose(s)
    \/ Internal

SpecReconnect == Init /\ [][NextReconnect]_vars

\* ===================================================================== claims
Range(q) == {q[i] : i \in 1..Len(q)}
Registered(s) == sockets[s].proc \in Procs /\ s \in MapSocks(connections[sockets[s].proc])
\* The step delivers the next backbone event to process p.
Delivering(p) == inbox[p] # <<>> /\ inbox'[p] = Tail(inbox[p])
\* A connection broadcastToConversation is meant to reach with an event.
LiveSubscriber(s, ev) ==
    /\ sockets[s].state = "OPEN"
    /\ ev.conv \in connObj[s].conversationIds
    /\ connObj[s].user # ev.user

\* C1: whenever a MessageReceived event is dispatched on a process connected
\* to the backbone, every registered connection with an open socket that is
\* subscribed to the event's conversation and is not the sender's is sent the
\* message_received frame of the event.
C1_EveryLiveSubscriberReceives ==
    [][\A p \in Procs :
         (Delivering(p) /\ Head(inbox[p]).kind = "msg" /\ IsRedisConnected(p))
         => \A s \in MapSocks(connections[p]) :
               LiveSubscriber(s, Head(inbox[p]))
               => FrameOfEvent(Head(inbox[p])) \in Range(out'[s])]_vars

C3_LocalFallbackDelivers ==
    [][\A t \in handlers :
          (/\ t.pc = "create" /\ t \notin handlers'
           /\ ~IsRedisConnected(t.proc)
           /\ Len(messages') = Len(messages) + 1)
          => /\ \A s \in MapSocks(connections[t.proc]) :
                   (/\ sockets[s].state = "OPEN"
                    /\ t.conv \in connObj[s].conversationIds
                    /\ connObj[s].user # connObj[t.sock].user)
                   => \E f \in Range(out'[s]) :
                         f.type = "message_received" /\ f.conv = t.conv
             /\ \A s \in Sockets : sockets[s].proc # t.proc => out'[s] = <<>>]_vars

\* C4: in every state, on every process, user u is in the member set the
\* subscription index holds for conversation c if and only if some registered
\* connection of u has c in its subscribed set.
C4_IndexMatchesConnections ==
    \A p \in Procs, u \in Users, c \in Convs :
        (c \in DOMAIN conversationSubscriptions[p] /\ u \in conversationSubscriptions[p][c])
        <=> \E s \in MapSocks(connections[p]) :
               connObj[s].user = u /\ c \in connObj[s].conversationIds

\* A socket that was admitted and whose handleDisconnection has completed.
Evicted(s) ==
    /\ admit[s].pc # "none"
    /\ ~Registered(s)
    /\ \A t \in BagToSet(discs) : t.sock # s

RegisteredNext(s) ==
    sockets'[s].proc \in Procs /\ s \in MapSocks(connections'[sockets'[s].proc])

BroadcastTypes == {"message_received", "typing_indicator", "presence_update"}

\* Connection s is the only registered connection of its user subscribed to c.
LastSubscribed(s, c) ==
    /\ c \in connObj[s].conversationIds
    /\ \A r \in MapSocks(connections[sockets[s].proc]) \ {s} :
          ~(connObj[r].user = connObj[s].user /\ c \in connObj[r].conversationIds)

InMemberSet(subs, c, u) == c \in DOMAIN subs /\ u \in subs[c]

\* C5: no step sends a conversation, typing or presence broadcast frame to the
\* socket of a connection whose eviction has completed, and the step that
\* completes an eviction leaves the user out of the member set of every
\* conversation in which the connection was the user's last subscribed one.
C5_EvictedGetsNothing ==
    [][\A s \in Sockets :
          /\ Evicted(s) => \A f \in Range(out'[s]) : f.type \notin BroadcastTypes
          /\ (Registered(s) /\ ~RegisteredNext(s))
             => \A c \in Convs :
                   LastSubscribed(s, c)
                   => ~InMemberSet(conversationSubscriptions'[sockets[s].proc], c,
                                   connObj[s].user)]_vars

\* A message_received goes out to a socket of the process while an evicted
\* connection of another user than the sender was subscribed to its
\* conversation, and the evicted connection's user is in no member set.
C5_Witness ==
    \E s, r \in Sockets :
        /\ s # r /\ Evicted(s) /\ sockets[r].proc = sockets[s].proc
        /\ connObj[s].conversationIds # {}
        /\ \E f \in Range(out[r]) :
              /\ f.type = "message_received"
              /\ f.conv \in connObj[s].conversationIds
              /\ f.user # connObj[s].user
        /\ out[s] = <<>>

\* The connection of socket s is out of the registry, and its user is out of
\* the member set of every conversation of the connection that no registered
\* connection of the user is subscribed to.
RemovedEverywhere(s) ==
    /\ ~Registered(s)
    /\ \A c \in connObj[s].conversationIds :
          InMemberSet(conversationSubscriptions[sockets[s].proc], c, connObj[s].user)
          => \E r \in MapSocks(connections[sockets[s].proc]) :
                connObj[r].user = connObj[s].user /\ c \in connObj[r].conversationIds

C7_RejectOrWelcomeFirst ==
    \A s \in Sockets :
        \/ sockets[s].state = "unused" /\ first[s] = "" /\ ~Registered(s)
        \/ /\ admit[s].pc = "none"
           /\ sockets[s].state = "CLOSED" /\ sockets[s].code = 1008
           /\ ~Registered(s) /\ first[s] = "" /\ out[s] = <<>>
        \/ /\ admit[s].pc # "none"
           /\ sockets[s].code # 1008
           /\ first[s] = "welcome"

\* A refused socket on a process where an admitted socket, welcomed first, is
\* receiving a broadcast frame.
C7_Witness ==
    \E s, r \in Sockets :
        /\ sockets[s].code = 1008 /\ sockets[r].proc = sockets[s].proc
        /\ Registered(r) /\ first[r] = "welcome"
        /\ \E f \in Range(out[r]) : f.type \in BroadcastTypes

\* The ids of the persisted messages, and of those acknowledged to the sender.
Persisted == 1..Len(messages)
Acked == {m \in Persisted : acks[m].sent}
PublishedMsgs == {ev.msg : ev \in {e \in Range(inbox["p1"]) \cup Range(inbox["p2"]) : e.kind = "msg"}}
FramesOut(type) == {f \in UNION {Range(out[s]) : s \in Sockets} : f.type = type}

Serving(s) ==
    /\ sockets[s].state = "OPEN" /\ sockets[s].attached
    /\ MapHas(connections[sockets[s].proc], sockets[s].cid)
    /\ MapSock(connections[sockets[s].proc], sockets[s].cid) = s

Malformed(f) == f.type = "chat_message" /\ (f.conv = NoConv \/ ~f.body)

\* C9: a chat_message without conversationId or body puts exactly one error
\* frame on the sender's socket and nothing on any other, persists and
\* publishes nothing, starts no handler and changes nothing of the registry,
\* the index or the socket but the connection's lastSeen, so that every later
\* frame finds the connection as it was; and a well-formed chat_message on a
\* serving connection always starts the handler, whatever frames came before.
C9_MalformedChatOnlyErrors ==
    [][\A s \in Sockets, f \in Frames :
          (Serving(s) /\ f.type = "chat_message" /\ ReceiveFrame(s, f))
          => IF Malformed(f)
             THEN /\ out' = [r \in Sockets |->
                               IF r = s THEN <<ErrorFrame("Missing conversationId or body")>>
                               ELSE <<>>]
                  /\ connObj' = [connObj EXCEPT ![s].lastSeen = now]
                  /\ UNCHANGED <<messages, acks, inbox, handlers, discs, closeEvt,
                                 connections, conversationSubscriptions, listeners,
                                 sockets, admit>>
             ELSE /\ out' = [r \in Sockets |-> <<>>]
                  /\ \E t \in handlers' \ handlers :
                        t.sock = s /\ t.kind = "chat" /\ t.conv = f.conv
                        /\ t.pc = "participant"]_vars

\* The error for the missing fields has just been sent on a connection that
\* is registered and open, as the second frame received, nothing persisted
\* for it.
C9_Witness ==
    \E s \in Sockets :
        /\ out[s] = <<ErrorFrame("Missing conversationId or body")>>
        /\ Serving(s) /\ Registered(s)
        /\ nframes = 2
        /\ \A m \in Persisted : messages[m].fid # 2

NotParticipantError == ErrorFrame("You are not a participant in this conversation")

\* C10: when the participant check of a chat_message returns for a sender who
\* is not a participant of the conversation, the only frame sent is the error
\* frame on the sender's socket (none when that socket has closed meanwhile),
\* the handler ends, and nothing is persisted or published and neither the
\* registry, the index nor any socket changes; no persisted message is from a
\* user outside its conversation.
C10_NonParticipantOnlyErrors ==
    [][/\ \A t \in handlers :
             (/\ t.kind = "chat" /\ t.pc = "participant"
              /\ connObj[t.sock].user \notin Participants(t.conv)
              /\ ParticipantReturn(t))
             => /\ out' = [r \in Sockets |->
                             IF r = t.sock /\ sockets[r].state = "OPEN"
                             THEN <<NotParticipantError>> ELSE <<>>]
                /\ handlers' = handlers \ {t}
                /\ UNCHANGED <<messages, acks, inbox, discs, closeEvt, connections,
                               conversationSubscriptions, listeners, sockets, admit>>
       /\ \A m \in 1..Len(messages') :
             messages'[m].sender \in Participants(messages'[m].conv)]_vars

\* The error has just gone to a sender outside the conversation, whose
\* connection is registered and open while another connection subscribed to
\* that conversation is open and got nothing.
C10_Witness ==
    \E s, r \in Sockets :
        /\ s # r
        /\ out[s] = <<NotParticipantError>> /\ out[r] = <<>>
        /\ Serving(s) /\ Registered(s) /\ Serving(r)
        /\ "Y" \in connObj[r].conversationIds /\ connObj[s].user = "A"
        /\ messages = <<>>

SendFailedError == ErrorFrame("Failed to send message")

\* C11: when createMessage throws for a chat_message, the only frame sent is
\* the error frame on the sender's socket (none when that socket has closed
\* meanwhile), the handler ends, and nothing is persisted or published and
\* neither the registry, the index nor any socket changes.
C11_WriteFailureOnlyErrors ==
    [][\A t \in handlers :
          (t.kind = "chat" /\ t.pc = "create" /\ CreateMessageReturn(t, FALSE))
          => /\ out' = [r \in Sockets |->
                          IF r = t.sock /\ sockets[r].state = "OPEN"
                          THEN <<SendFailedError>> ELSE <<>>]
             /\ handlers' = handlers \ {t}
             /\ UNCHANGED <<messages, acks, inbox, discs, closeEvt, connections,
                            conversationSubscriptions, listeners, sockets, admit>>]_vars

\* The write error has just gone to a sender whose connection is registered
\* and open, another subscribed connection is open and got nothing, and
\* nothing is persisted or on the backbone.
C11_Witness ==
    \E s, r \in Sockets :
        /\ s # r
        /\ out[s] = <<SendFailedError>> /\ out[r] = <<>>
        /\ Serving(s) /\ Registered(s) /\ Serving(r)
        /\ connObj[r].conversationIds \cap connObj[s].conversationIds # {}
        /\ messages = <<>> /\ PublishedMsgs = {}

\* C12: when createMessage returns on a process whose flag is set while the
\* backbone is lost, the message is persisted, the only frame is message_sent
\* on the sender's socket, nothing reaches the backbone and the handler goes on
\* to the return of the publish; and the return of a chat message's publish
\* sends no frame, leaves the persisted messages as they are and changes
\* neither the registry nor any socket.
C12_PublishFailureKeepsMessage ==
    [][\A t \in handlers :
          /\ (/\ t.kind = "chat" /\ t.pc = "create" /\ CreateMessageReturn(t, TRUE)
              /\ IsRedisConnected(t.proc) /\ ~backboneUp)
             => /\ Len(messages') = Len(messages) + 1
                /\ messages'[Len(messages')].fid = t.fid
                /\ out' = [r \in Sockets |->
                             IF r = t.sock /\ sockets[r].state = "OPEN"
                             THEN <<MessageSent(Len(messages'), t.conv, connObj[r].user)>>
                             ELSE <<>>]
                /\ handlers' = (handlers \ {t}) \cup {[t EXCEPT !.pc = "publish"]}
                /\ UNCHANGED <<inbox, connections, conversationSubscriptions, sockets>>
          /\ (t.kind = "chat" /\ t.pc = "publish" /\ PublishReturn(t))
             => /\ out' = [r \in Sockets |-> <<>>]
                /\ handlers' = handlers \ {t}
                /\ UNCHANGED <<messages, acks, inbox, connections,
                               conversationSubscriptions, sockets>>]_vars

\* createMessage has just returned with the flag set and the backbone lost:
\* the message is persisted, message_sent is on the sender's socket, the
\* handler waits for the publish, and no event of the message is on the
\* backbone; the sender's connection is registered and open.
C12_Witness ==
    \E t \in handlers :
        /\ t.kind = "chat" /\ t.pc = "publish"
        /\ ~backboneUp /\ IsRedisConnected(t.proc)
        /\ \E m \in Persisted :
              /\ messages[m].fid = t.fid /\ acks[m].sent
              /\ out[t.sock] = <<MessageSent(m, t.conv, connObj[t.sock].user)>>
        /\ PublishedMsgs = {}
        /\ Registered(t.sock) /\ Serving(t.sock)

\* C13: on a process whose connectRedis has failed the flag stays false; a
\* handshake handed to handleConnection is registered and sent welcome, and
\* when findByUserId returns the connection is subscribed to every
\* conversation of its user, the user is in the member set of each of them,
\* and the handlers are attached: the admission is complete.
C13_AdmissionWithoutBackbone ==
    [][\A p \in Procs :
          redis[p] = "failed"
          => /\ redis'[p] = "failed"
             /\ \A s \in Sockets :
                   /\ (sockets[s].state = "unused" /\ sockets'[s].proc = p
                       /\ sockets'[s].state = "OPEN")
                      => /\ RegisteredNext(s)
                         /\ out'[s] = <<Welcome(connObj'[s].user)>>
                   /\ (sockets[s].proc = p /\ SubscribeStart(s))
                      => /\ RegisteredNext(s)
                         /\ connObj'[s].conversationIds = Range(FindByUserId(connObj[s].user))
                         /\ \A c \in Range(FindByUserId(connObj[s].user)) :
                               InMemberSet(conversationSubscriptions'[p], c, connObj[s].user)
                         /\ sockets'[s].attached /\ admit'[s].pc = "done"
                         /\ listeners' = listeners]_vars

\* A connection admitted on a process whose connectRedis failed: registered,
\* welcomed first, subscribed to both conversations of its user, who is in
\* both member sets, and receiving the presence frame of its own admission.
C13_Witness ==
    \E s \in Sockets :
        /\ Registered(s) /\ Serving(s) /\ first[s] = "welcome"
        /\ redis[sockets[s].proc] = "failed"
        /\ connObj[s].conversationIds = {"X", "Y"}
        /\ \A c \in {"X", "Y"} :
              InMemberSet(conversationSubscriptions[sockets[s].proc], c, connObj[s].user)
        /\ \E f \in Range(out[s]) : f.type = "presence_update" /\ f.user = connObj[s].user

\* Socket s is a registered, open connection of B on p2 subscribed to X.
LiveOnP2(s) ==
    /\ Registered(s) /\ sockets[s].proc = "p2" /\ sockets[s].state = "OPEN"
    /\ connObj[s].user = "B" /\ "X" \in connObj[s].conversationIds

MsgEvents(p) == {e \in Range(inbox[p]) : e.kind = "msg"}

\* C14: with both processes connected, the step that persists a chat_message
\* of A for X on p1 while a connection of B on p2 is subscribed to X puts the
\* event on p2's channel; and an event of A for X waiting at p2 while such a
\* connection of B is live leads to the message_received frame of that
\* message, with A as the sender, on that connection (or to the connection
\* being no longer live).
C14_CrossProcessDelivery ==
    /\ [][\A t \in handlers :
             (/\ t.kind = "chat" /\ t.pc = "create" /\ t.proc = "p1" /\ t.conv = "X"
              /\ CreateMessageReturn(t, TRUE)
              /\ \E s \in Sockets : LiveOnP2(s))
             => \E e \in Range(inbox'["p2"]) :
                   e.kind = "msg" /\ e.conv = "X" /\ e.msg = Len(messages')
                   /\ e.user = connObj[t.sock].user]_vars
    /\ \A s \in Sockets : \A m \in 1..CrossFrames :
          (LiveOnP2(s) /\ \E e \in MsgEvents("p2") : e.msg = m /\ e.conv = "X" /\ e.user = "A")
          ~> (\/ ~LiveOnP2(s)
              \/ \E f \in Range(out[s]) :
                    f.type = "message_received" /\ f.msg = m /\ f.user = "A")

TypingTypes == {"typing_start", "typing_stop"}
TypingEventOf(f, u) ==
    Event("typing", f.conv, u, 0, IF f.type = "typing_start" THEN "true" ELSE "false")

\* The frames a typing event puts on the sockets of process p when it goes to
\* exactly the registered open connections subscribed to its conversation
\* whose user is not the event's.
TypingFanOut(p, ev) ==
    [r \in Sockets |->
        IF /\ r \in MapSocks(connections[p]) /\ sockets[r].state = "OPEN"
           /\ ev.conv \in connObj[r].conversationIds /\ connObj[r].user # ev.user
        THEN <<FrameOfEvent(ev)>> ELSE <<>>]

\* C15: a typing_start or typing_stop frame with a conversationId persists
\* nothing and puts no frame on the sender's socket; without the flag the step
\* that receives it, and with the flag each delivery of its event on a
\* process, sends the typing_indicator frame to exactly the registered open
\* connections of that process that are subscribed to the conversation and
\* belong to another user.
C15_TypingReachesSubscribers ==
    [][/\ \A s \in Sockets, f \in Frames :
             (/\ Serving(s) /\ f.type \in TypingTypes /\ f.conv # NoConv
              /\ ReceiveFrame(s, f))
             => /\ messages' = messages
                /\ out'[s] = <<>>
                /\ IF IsRedisConnected(sockets[s].proc)
                   THEN out' = [r \in Sockets |-> <<>>]
                   ELSE out' = TypingFanOut(sockets[s].proc, TypingEventOf(f, connObj[s].user))
       /\ \A p \in Procs :
             (Delivering(p) /\ Head(inbox[p]).kind = "typing")
             => /\ messages' = messages
                /\ out' = TypingFanOut(p, Head(inbox[p]))]_vars

PresenceEventOf(u, status) == Event("presence", NoConv, u, 0, status)

\* The frames a presence event puts on the sockets when it goes to every
\* registered connection of process p whose socket is open, socket x apart.
PresenceFanOut(p, ev, x) ==
    [r \in Sockets |->
        IF r \in MapSocks(connections[p]) /\ r # x /\ sockets[r].state = "OPEN"
        THEN <<FrameOfEvent(ev)>> ELSE <<>>]

\* C16: each dispatch of a presence event on a process -- the delivery of a
\* published one, and without the flag the online update at the end of an
\* admission and the offline update of a closing connection -- sends the
\* presence_update frame to every registered connection of the process with
\* an open socket, those of the event's user included, and to no other socket.
C16_PresenceReachesEveryone ==
    [][/\ \A p \in Procs :
             (Delivering(p) /\ Head(inbox[p]).kind = "presence")
             => out' = PresenceFanOut(p, Head(inbox[p]), 0)
       /\ \A s \in Sockets :
             /\ (/\ Registered(s) /\ ~IsRedisConnected(sockets[s].proc)
                 /\ SubscribeStart(s))
                => out' = PresenceFanOut(sockets[s].proc,
                                         PresenceEventOf(connObj[s].user, "online"), 0)
             /\ (/\ Serving(s) /\ ~IsRedisConnected(sockets[s].proc)
                 /\ ClientClose(s))
                => out' = PresenceFanOut(sockets[s].proc,
                                         PresenceEventOf(connObj[s].user, "offline"), s)]_vars

\* A presence frame about a user is on the open socket of a connection of
\* that user and on the open socket of a connection of another user who has
\* a conversation the first does not have.
C16_Witness ==
    \E r1, r2 \in Sockets : \E f \in Range(out[r1]) :
        /\ f.type = "presence_update" /\ f \in Range(out[r2])
        /\ Registered(r1) /\ Registered(r2)
        /\ connObj[r1].user = f.user /\ connObj[r2].user # f.user
        /\ connObj[r2].conversationIds \ connObj[r1].conversationIds # {}

\* The step sends the one frame fr on socket s and nothing on any other, and
\* persists, publishes and starts nothing; registry, index and sockets stay.
OnlyReplies(s, fr) ==
    /\ out' = [r \in Sockets |-> IF r = s THEN <<fr>> ELSE <<>>]
    /\ UNCHANGED <<messages, acks, inbox, handlers, discs, closeEvt, connections,
                   conversationSubscriptions, listeners, sockets, admit>>

\* C17: a ping frame on a serving connection puts exactly one pong frame on
\* the sender's socket and no frame on any other socket, and persists and
\* publishes nothing.
C17_PingOnlyPongs ==
    [][\A s \in Sockets :
          (Serving(s) /\ ReceiveFrame(s, PlainFrame("ping"))) => OnlyReplies(s, Pong)]_vars

\* The pong has just gone to a serving connection, as the only frame, while
\* another connection sharing a conversation is serving.
C17_Witness ==
    \E s, r \in Sockets :
        /\ s # r /\ out[s] = <<Pong>> /\ out[r] = <<>>
        /\ Serving(s) /\ Registered(s) /\ Serving(r)
        /\ connObj[r].conversationIds \cap connObj[s].conversationIds # {}

UnknownTypeError == ErrorFrame("Unknown message type")

\* C18: a parsed frame of a type other than chat_message, typing_start,
\* typing_stop and ping on a serving connection puts exactly one error frame
\* on the sender's socket and no frame on any other socket, persists and
\* publishes nothing, and leaves the connection registered and the socket
\* open.
C18_UnknownTypeOnlyErrors ==
    [][\A s \in Sockets :
          (Serving(s) /\ ReceiveFrame(s, PlainFrame("bogus")))
          => OnlyReplies(s, UnknownTypeError)]_vars

\* The error for the unknown type has just gone to a serving connection, as
\* the only frame, while another connection sharing a conversation is serving.
C18_Witness ==
    \E s, r \in Sockets :
        /\ s # r /\ out[s] = <<UnknownTypeError>> /\ out[r] = <<>>
        /\ Serving(s) /\ Registered(s) /\ Serving(r)
        /\ connObj[r].conversationIds \cap connObj[s].conversationIds # {}

\* C19: the chat messages of one connection are persisted in the order their
\* frames arrived: of two persisted messages that came in on the same socket,
\* the one persisted first is from the frame received first.
C19_FramesHandledInArrivalOrder ==
    \A i, j \in Persisted :
        (i < j /\ acks[i].sock = acks[j].sock) => messages[i].fid < messages[j].fid

\* C20: handling a parsed inbound frame on a serving connection leaves the
\* connection's liveness flag true and its lastSeen at the current time; and
\* no sweep terminates a connection whose lastSeen is the current time, that
\* is, one that was heard from since the sweep before.
C20_FrameKeepsAlive ==
    [][\A s \in Sockets :
          /\ \A f \in Frames :
                (Serving(s) /\ f.type # "invalid" /\ ReceiveFrame(s, f))
                => \/ connObj'[s].isAlive /\ connObj'[s].lastSeen = now
                   \/ \E t \in handlers' \ handlers : t.sock = s
          /\ (/\ nsweeps' = nsweeps + 1
              /\ sockets[s].state = "OPEN" /\ sockets'[s].state = "CLOSING")
             => connObj[s].lastSeen # now]_vars

\* The step admits socket s: handleConnection runs on its handshake.
Admitting(s) == sockets[s].state = "unused" /\ sockets'[s].state = "OPEN"

\* C21: handleConnection registers the new connection under an identifier the
\* registry does not hold yet: an admission overwrites no entry and makes the
\* registry of its process one entry longer, for any users and admission
\* times, several sockets of one user admitted at the same clock value
\* included.
C21_FreshConnectionId ==
    [][\A s \in Sockets :
          Admitting(s) =>
             LET p == sockets'[s].proc
             IN /\ ~MapHas(connections[p], sockets'[s].cid)
                /\ Len(connections'[p]) = Len(connections[p]) + 1]_vars

\* The step runs the subscription loop of the admission of socket s.
Subscribing(s) == admit[s].pc \in {"find", "sub"} /\ admit'[s] # admit[s]

\* The member set of conversation c on process p in index subs ({} if no entry).
MemberSet(subs, p, c) == IF c \in DOMAIN subs[p] THEN subs[p][c] ELSE {}

\* C22: subscribing a user to a conversation a second time leaves the member
\* set as the first subscribe left it, and the subscription loop of a
\* further connection of a user who is already in a member set does not
\* change that member set.
C22_SubscribeIdempotent ==
    [][/\ \A p \in Procs, u \in Users, c \in Convs :
            LET once  == SubscribeLocal(World, p, 1, u, c)
                twice == SubscribeLocal(once, p, 1, u, c)
            IN /\ twice.subs = once.subs
               /\ Cardinality(MemberSet(twice.subs, p, c))
                     = Cardinality(MemberSet(once.subs, p, c))
       /\ \A s \in Sockets :
            Subscribing(s) =>
               \A c \in Convs :
                  LET p == sockets[s].proc
                  IN connObj[s].user \in MemberSet(conversationSubscriptions, p, c)
                       => MemberSet(conversationSubscriptions', p, c)
                            = MemberSet(conversationSubscriptions, p, c)]_vars

\* Two registered connections of one user on one process, both through their
\* subscription loops and subscribed to X, the user in X's member set.
C22_Witness ==
    \E s, r \in Sockets :
       /\ s # r /\ Registered(s) /\ Registered(r)
       /\ sockets[s].proc = sockets[r].proc
       /\ connObj[s].user = connObj[r].user
       /\ admit[s].pc = "done" /\ admit[r].pc = "done"
       /\ "X" \in connObj[s].conversationIds /\ "X" \in connObj[r].conversationIds
       /\ connObj[s].user \in MemberSet(conversationSubscriptions, sockets[s].proc, "X")

\* A frame that is not JSON or lacks a field its type requires.
MalformedFrame(f) ==
    \/ f.type = "invalid"
    \/ Malformed(f)
    \/ f.type \in TypingTypes /\ f.conv = NoConv

\* C23: every inbound frame that is not valid JSON or lacks a required field
\* (conversationId or body of a chat_message, conversationId of typing_start
\* and typing_stop) puts an error frame on the sender's socket and leaves the
\* connection's liveness flag, its subscription set and the index unchanged.
C23_MalformedFrameYieldsError ==
    [][\A s \in Sockets, f \in Frames :
          (Serving(s) /\ MalformedFrame(f) /\ ReceiveFrame(s, f))
          => /\ \E i \in 1..Len(out'[s]) : out'[s][i].type = "error"
             /\ connObj'[s].isAlive = connObj[s].isAlive
             /\ connObj'[s].conversationIds = connObj[s].conversationIds
             /\ UNCHANGED conversationSubscriptions]_vars

\* Handler t has published on a backbone that was lost before it started.
PublishFailed(t) == t.pc = "publish" /\ IsRedisConnected(t.proc) /\ ~backboneUp

\* The frame the event of handler t is to give: of its kind, conversation and
\* sender.
FanOutFrame(t, fr) ==
    /\ fr.type = (IF t.kind = "chat" THEN "message_received" ELSE "typing_indicator")
    /\ fr.conv = t.conv
    /\ fr.user = connObj[t.sock].user

\* C24: when the publish of a chat message or of a typing event fails on a
\* process whose backbone was established, the registered open connections
\* of other users on that process that are subscribed to the conversation
\* are sent the message_received or typing_indicator frame, by the step that
\* published or by the one that resumes from the publish.
C24_PublishFailureFallsBackLocal ==
    [][\A t \in handlers :
          (PublishFailed(t) /\ PublishReturn(t))
          => \A r \in MapSocks(connections[t.proc]) :
                (/\ sockets[r].state = "OPEN"
                 /\ t.conv \in connObj[r].conversationIds
                 /\ connObj[r].user # connObj[t.sock].user)
                => \E fr \in Range(out[r]) \cup Range(out'[r]) : FanOutFrame(t, fr)]_vars

\* C25: when a backbone subscribe call fails during the admission of a
\* connection, the connection stays registered and, once the subscription
\* loop has ended, has every conversation the Gateway returned for its user
\* in its subscription set, with the user in the member set of each.
C25_SubscribeFailureKeepsLocal ==
    [][\A s \in Sockets :
          (/\ Subscribing(s) /\ admit'[s].pc \notin {"find", "sub"}
           /\ IsRedisConnected(sockets[s].proc) /\ ~backboneUp
           /\ Registered(s))
          => /\ RegisteredNext(s)
             /\ \A c \in Range(FindByUserId(connObj[s].user)) :
                   /\ c \in connObj'[s].conversationIds
                   /\ connObj[s].user
                        \in MemberSet(conversationSubscriptions', sockets[s].proc, c)]_vars

\* The handlers registered on the conversation channels of process p.
RECURSIVE ChannelHandlers(_, _)
ChannelHandlers(p, convs) ==
    IF convs = {} THEN 0
    ELSE LET c == CHOOSE x \in convs : TRUE
         IN listeners[p][c] + ChannelHandlers(p, convs \ {c})

\* The (registered connection, subscribed conversation) pairs of process p.
SubscribedPairs(p) ==
    {pr \in MapSocks(connections[p]) \X Convs : pr[2] \in connObj[pr[1]].conversationIds}

\* C26: the backbone subscriptions made for a connection are released when
\* it is evicted: a conversation to which no registered connection of a
\* process is subscribed has no handler on its channel there, and the
\* handlers on conversation channels are never more than the (registered
\* connection, subscribed conversation) pairs.
C26_BackboneSubscriptionsReleased ==
    \A p \in Procs :
       /\ \A c \in Convs :
             (\A pr \in SubscribedPairs(p) : pr[2] # c) => listeners[p][c] = 0
       /\ ChannelHandlers(p, Convs) <= Cardinality(SubscribedPairs(p))

\* The sweeps that have probed the connection of socket s since it last
\* answered: with one admission the clock advances by one per sweep, and
\* lastSeen is the time of the connection's last pong (of its admission when
\* it never answered).
SweepsSinceAnswer(s) == now - connObj[s].lastSeen

\* C27: the Liveness Monitor terminates a connection only after two
\* consecutive unanswered heartbeat probes: the sweep that terminates it is
\* at least the third since the connection last answered, so that one
\* unanswered probe, or an answer to every other sweep's probe, never leads
\* to eviction.
C27_TwoMissedProbesBeforeEviction ==
    [][\A s \in Sockets :
          (sockets[s].state = "OPEN" /\ sockets'[s].state = "CLOSING")
          => SweepsSinceAnswer(s) >= 2]_vars

\* The step removes no registry entry and leaves the connection record and
\* the socket of every connection but that of socket s as they were.
OthersUntouched(s) ==
    /\ connections' = connections
    /\ closeEvt' = closeEvt
    /\ \A r \in Sockets \ {s} : connObj'[r] = connObj[r] /\ sockets'[r] = sockets[r]

\* C28: handling an inbound frame of a connection, in the step that receives
\* it and in every later step of its handler (participant check, persistence
\* succeeding or failing, return of the publish), removes no registry entry
\* and closes or modifies no other connection: subscription set, liveness
\* flag and last-seen of every other connection stay as they were.
C28_FrameLeavesOthersAlone ==
    [][/\ \A s \in Sockets, f \in Frames : ReceiveFrame(s, f) => OthersUntouched(s)
       /\ \A t \in handlers :
             (\/ ParticipantReturn(t)
              \/ \E ok \in BOOLEAN : CreateMessageReturn(t, ok)
              \/ PublishReturn(t))
             => OthersUntouched(t.sock)]_vars

\* C29: every entry of the Subscription Index has a non-empty member set, on
\* every process and in every state, so that the number of entries (the size
\* getStats reports) is the number of conversations with at least one
\* member.
C29_NoEmptyIndexEntry ==
    \A p \in Procs :
       /\ \A c \in DOMAIN conversationSubscriptions[p] :
             conversationSubscriptions[p][c] # {}
       /\ Cardinality(DOMAIN conversationSubscriptions[p])
            = Cardinality({c \in Convs : MemberSet(conversationSubscriptions, p, c) # {}})

\* A connection subscribed to X and Y has been evicted: the entry of Y, left
\* without members, is gone, and the entry of X remains with another user.
C29_Witness ==
    \E s \in Sockets :
       /\ Evicted(s)
       /\ connObj[s].conversationIds = {"X", "Y"}
       /\ DOMAIN conversationSubscriptions[sockets[s].proc] = {"X"}
       /\ connObj[s].user \notin conversationSubscriptions[sockets[s].proc]["X"]

\* C30: no frame is sent on a socket that is not OPEN.  A socket that is sent
\* a frame in a step was OPEN before the step, or is opened by it, and is
\* OPEN after it, unless the step is a sweep that sent the frame and then
\* terminated the socket; a connection whose socket was terminated or closed
\* and that is still in the registry is sent nothing.
C30_NoFrameOnClosedSocket ==
    [][\A s \in Sockets :
          out'[s] # <<>>
          => /\ sockets[s].state = "OPEN" \/ Admitting(s)
             /\ \/ sockets'[s].state = "OPEN"
                \/ /\ sockets'[s].state = "CLOSING" /\ sockets[s].state = "OPEN"
                   /\ nsweeps' = nsweeps + 1]_vars

\* A broadcast frame has just been sent to a connection while another
\* connection of the same process, terminated or closed but still in the
\* registry, was sent nothing.
C30_Witness ==
    \E s, r \in Sockets :
       /\ Registered(s) /\ Registered(r) /\ sockets[s].proc = sockets[r].proc
       /\ sockets[s].state \in {"CLOSING", "CLOSED"}
       /\ out[s] = <<>>
       /\ sockets[r].state = "OPEN"
       /\ \E fr \in Range(out[r]) : fr.type \in BroadcastTypes

\* The socket of the registered connection s has closed or failed while at
\* least two sweeps are still to come.
ClosedAndRegistered(s) ==
    /\ sockets[s].state \in {"CLOSING", "CLOSED"}
    /\ Registered(s)
    /\ nsweeps + 2 <= MaxSweeps

\* C31: a connection whose socket has closed or has emitted an error is
\* eventually out of the registry and of the index, and stays out, as long
\* as the sweeps keep running; also when the socket closed during the
\* admission, before the close handler was attached.
C31_ClosedConnectionRemoved ==
    \A s \in Sockets : ClosedAndRegistered(s) ~> [](~Registered(s) /\ RemovedEverywhere(s))

\* The step changes a membership: the index or a connection's subscribed set.
MembershipChanges ==
    \/ conversationSubscriptions' # conversationSubscriptions
    \/ \E s \in Sockets : connObj'[s].conversationIds # connObj[s].conversationIds

\* C32: the index and the connections' subscribed sets change only in a step
\* of the subscription loop of an admission or in a step of
\* handleDisconnection (one that takes a connection out of the registry or
\* resumes a suspended handleDisconnection call); the step that receives a frame, every
\* continuation of a frame's handler, every delivery of a backbone event and
\* every pong leave them as they are.
C32_MembershipOnlyOnAdmitAndEvict ==
    [][/\ MembershipChanges
          => \/ \E s \in Sockets : Subscribing(s)
             \/ \E p \in Procs : Len(connections'[p]) < Len(connections[p])
             \/ BagCardinality(discs') < BagCardinality(discs)
       /\ (\/ nframes' # nframes
           \/ handlers' # handlers
           \/ \E p \in Procs : Delivering(p)
           \/ \E s \in Sockets : PongEvent(s))
          => ~MembershipChanges]_vars

\* A registered connection that has sent two frames and has been probed by a
\* sweep and answered, subscribed to exactly its user's conversations, with
\* the user in the member set of each.
C32_Witness ==
    \E s \in Sockets :
       /\ Registered(s) /\ Serving(s) /\ admit[s].pc = "done"
       /\ nframes = 2 /\ nsweeps >= 1 /\ connObj[s].isAlive
       /\ connObj[s].conversationIds = Range(FindByUserId(connObj[s].user))
       /\ connObj[s].conversationIds # {}
       /\ \A c \in connObj[s].conversationIds :
             connObj[s].user \in MemberSet(conversationSubscriptions, sockets[s].proc, c)

\* A chat_message of socket s that passed the field check is being handled
\* and waits for the Gateway: nothing has been sent for it yet.
ChatPending(s) ==
    \E t \in handlers : t.kind = "chat" /\ t.sock = s /\ t.pc \in {"participant", "create"}

\* Socket s has just been sent message_sent or error.
ChatAnswered(s) == \E fr \in Range(out[s]) : fr.type \in {"message_sent", "error"}

\* C33: every chat_message that passes the field check is eventually
\* answered: its sender is sent message_sent or error, unless the sender's
\* socket has closed, also when the Gateway's participant check or write
\* never returns.
C33_ChatAlwaysAnswered ==
    \A s \in Sockets :
       ChatPending(s) ~> (ChatAnswered(s) \/ sockets[s].state # "OPEN")

\* The message_received frames the step sends on socket s.
ReceivedNow(s) == SelectSeq(out'[s], LAMBDA fr : fr.type = "message_received")

\* C34: the step in which a process is delivered one published message event
\* sends at most one message_received frame on every socket.
C34_OneFramePerEvent ==
    [][\A p \in Procs :
          (Delivering(p) /\ Head(inbox[p]).kind = "msg")
             => \A s \in Sockets : Len(ReceivedNow(s)) <= 1]_vars

\* The step persists a chat message on a process connected to the backbone.
PersistsConnected ==
    /\ Len(messages') = Len(messages) + 1
    /\ \E t \in handlers : t.pc = "create" /\ t \notin handlers' /\ IsRedisConnected(t.proc)

\* The event published for the message persisted last in the next state.
LastEvent ==
    Event("msg", messages'[Len(messages')].conv, messages'[Len(messages')].sender,
          Len(messages'), "-")

\* C35: every connection of SpecStartup was handed to handleConnection while
\* connectRedis was pending.  Once its process is connected, the step that
\* persists a chat message of another user for a conversation such a
\* connection is subscribed to puts the message's event on the channel of the
\* connection's process, and the step that delivers the event sends the
\* connection the message_received frame, if the connection is registered,
\* open and has its handlers attached.
C35_EarlyConnectionReceives ==
    [][\A s \in Sockets :
          LET p == sockets[s].proc
          IN /\ (/\ p \in Procs /\ Serving(s) /\ IsRedisConnected(p)
                 /\ PersistsConnected /\ LiveSubscriber(s, LastEvent))
                => LastEvent \in Range(inbox'[p])
             /\ (/\ p \in Procs /\ Serving(s) /\ IsRedisConnected(p)
                 /\ Delivering(p) /\ Head(inbox[p]).kind = "msg"
                 /\ LiveSubscriber(s, Head(inbox[p])))
                => \E fr \in Range(out'[s]) :
                      fr.type = "message_received" /\ fr.msg = Head(inbox[p]).msg]_vars

\* Socket s is the only socket of its user that is not closed.
OnlySocketOfUser(s) ==
    \A r \in Sockets \ {s} : connObj[r].user = connObj[s].user => sockets[r].state = "CLOSED"

\* C36: when a user has one socket at a time, a connection of the user whose
\* admission is complete and that is registered and open has its user in the
\* member set of every conversation it is subscribed to, whatever cleanup of
\* the user's earlier connections ran during or after the admission.
C36_ReconnectKeepsMembership ==
    \A s \in Sockets :
        (Serving(s) /\ admit[s].pc = "done" /\ OnlySocketOfUser(s))
        => \A c \in connObj[s].conversationIds :
              InMemberSet(conversationSubscriptions[sockets[s].proc], c, connObj[s].user)

\* C37: every suspended handleDisconnection call has published one offline
\* presence event for its connection.  No connection ever has two such calls
\* in flight: its cleanup is started once.
C37_CleanupStartedOnce ==
    \A t \in BagToSet(discs) : CopiesIn(t, discs) = 1

\* The step starts handleDisconnection call t, which publishes the offline
\* presence event of its connection's user.
AnnouncesOffline(t) ==
    /\ CopiesIn(t, discs') > CopiesIn(t, discs)
    /\ \E q \in Procs : \E i \in (Len(inbox[q]) + 1)..Len(inbox'[q]) :
          inbox'[q][i] = Event("presence", NoConv, connObj[t.sock].user, 0, "offline")

\* C38: a step that publishes the offline presence event of a user for a
\* closed or evicted connection is taken only when no other connection of
\* that user is registered, open and served on the process.
C38_OfflineOnlyForLastConnection ==
    [][\A t \in BagToSet(discs') :
          AnnouncesOffline(t)
          => ~\E r \in Sockets \ {t.sock} :
                /\ sockets[r].proc = t.proc /\ Serving(r)
                /\ connObj[r].user = connObj[t.sock].user]_vars

\* C39: no socket is ever sent a typing_indicator frame for a conversation
\* whose typing user is not a participant of that conversation (a user's
\* connections are subscribed to conversations of that user only).
C39_NoTypingFromOutsiders ==
    \A s \in Sockets : \A fr \in Range(out[s]) :
        fr.type = "typing_indicator" => fr.user \in Participants(fr.conv)

\* C40: a frame a client sends on its open socket after the welcome frame is
\* handled, also while handleConnection is still suspended.  A frame is
\* handled in the turn in which it arrives or never (nothing queues it), so
\* for the ping frame: the step in which a welcomed, registered, open socket
\* receives {type: ping} sends pong on it.
C40_FrameAfterWelcomeHandled ==
    [][\A s \in Sockets :
          (/\ first[s] = "welcome" /\ sockets[s].state = "OPEN" /\ Registered(s)
           /\ ReceiveFrame(s, PlainFrame("ping")))
          => Pong \in Range(out'[s])]_vars

====
